---- MODULE Spec2Model ----
(***************************************************************************)
(* Billing / quota engine and payment reconciler of the Telegram bot       *)
(* backend (app/services/billing_service.py, payment_service.py and the   *)
(* routers that call them), as a state machine over the ledger store.      *)
(*                                                                         *)
(* Every request-handling task owns a session.  A handler is split at its  *)
(* awaits: a SELECT reads the committed store into the task's session, a   *)
(* commit writes the values the session computed from what it read (the    *)
(* ORM emits UPDATE ... SET col = <value> for the changed columns only).    *)
(* Time is counted in calendar days.                                       *)
(***************************************************************************)
EXTENDS Integers, Sequences, FiniteSets, TLC

VARIABLES users, purchases, usage, promo, chat, now, pc, loc, last, hist

vars == <<users, purchases, usage, promo, chat, now, pc, loc, last, hist>>

-----------------------------------------------------------------------------
(* Bounds of the model *)

NumProcs == 2        \* concurrent request-handling tasks
MaxTrial == 3        \* largest trial_left an existing user starts with
MaxCalls == 3        \* service calls started in one behaviour
MaxConsumeCalls == 4 \* consume_request calls started in one behaviour of SpecConsume
MaxPayCalls == 2     \* payment deliveries started in one behaviour of the payment specs
MaxTicks == 1        \* clock advances in one behaviour
MaxPromoUses == 2    \* largest max_uses of the promo
MaxTurns == 32       \* chat turns and grants started in one behaviour of SpecChatSeq
GrantAmount == 10    \* the amount an admin grants in SpecChatSeq
MaxViewCalls == 4    \* calls started in one behaviour of SpecSeqView
MaxChunks == 2       \* fragments of one answer of the provider
MaxChatCalls == 3    \* chat turns started in one behaviour of SpecChat
MaxHistory == 3      \* messages of the dialog that truncate_messages is given
MaxChars == 6        \* characters of the longest of these messages
MaxBudget == 3       \* largest max_tokens that truncate_messages is given
MaxLifeCalls == 5    \* calls started in one behaviour of SpecLife
MaxFrameCalls == 2   \* calls started in one behaviour of SpecFrame
MaxDeliveries == 3   \* deliveries of one payment in one behaviour of SpecRedeliver

(* Program constants *)

trial_requests == 30     \* settings.trial_requests
duration_days == 30      \* activate_plan(duration_days=30)
DefaultTokens == 1       \* consume_request(tokens=1)
UnlimitedQuota == -1     \* monthly quota of the Business plan
ContextLimit == 8192     \* max_tokens of the chat router
DaysInMonth == 30        \* calendar abstraction behind start_of_month

Procs == 1..NumProcs
UserIds == {1, 2}
None == 0                \* NULL / None for ids and timestamps (the clock starts at 1)
NoRow == [exists |-> FALSE]
\* the dialogs and messages tables, empty
NoChat == [dialogs |-> <<>>, messages |-> <<>>]

-----------------------------------------------------------------------------
(* The plans table: rows created from the admin surface, immutable after. *)

CapQuota == 2

Plans == <<[id |-> 1, name |-> "Pro", monthly_quota |-> CapQuota],
           [id |-> 2, name |-> "Business", monthly_quota |-> UnlimitedQuota]>>

PlanIds == {Plans[i].id : i \in 1..Len(Plans)}
PlanById(id) == CHOOSE r \in {Plans[i] : i \in 1..Len(Plans)} : r.id = id

\* SELECT id FROM plans WHERE name = '<plan_name>'  (scalar_one_or_none)
PlanIdByName_AnyName(plan_name) == Plans[1].id

PlanIdByName(plan_name) ==
  LET hit == {i \in 1..Len(Plans) : Plans[i].name = plan_name}
  IN IF hit = {} THEN None ELSE Plans[CHOOSE i \in hit : TRUE].id

-----------------------------------------------------------------------------
(* Helpers over the store *)

\* sum of Usage.requests over the rows of user u dated from day `from` on
RECURSIVE SumRequests(_, _, _)
SumRequests(s, u, from) ==
  IF s = <<>> THEN 0
  ELSE (IF Head(s).user_id = u /\ Head(s).date >= from THEN Head(s).requests ELSE 0)
       + SumRequests(Tail(s), u, from)

Exists(u) == users[u].exists

\* (mutant) the plan still counts on the day it runs out
PlanActive_Inclusive(usr, t) == usr.plan_id # None /\ usr.plan_until # None /\ usr.plan_until >= t

\* user.plan_id and user.plan_until and user.plan_until > datetime.utcnow()
PlanActive(usr, t) == usr.plan_id # None /\ usr.plan_until # None /\ usr.plan_until > t

\* datetime.utcnow().replace(day=1, ...)
StartOfMonth(t) == t - ((t - 1) % DaysInMonth)

\* indices of the Usage rows with user_id = u and date(Usage.date) = day
UsageRowsOn(u, day) == {i \in 1..Len(usage) : usage[i].user_id = u /\ usage[i].date = day}

\* select(func.sum(Usage.requests)).where(user_id == u, date >= start_of_month) or 0
UsedThisMonth(u, t) == SumRequests(usage, u, StartOfMonth(t))

Max(a, b) == IF a >= b THEN a ELSE b

-----------------------------------------------------------------------------
(* BillingService.get_user_quota / can_make_request: read-only views. *)

\* (mutant) the difference and the balance, not held at zero
RemainingOf_Unclamped(is_active, monthly_quota, used_this_month, trial_left) ==
  IF is_active THEN monthly_quota - used_this_month ELSE trial_left

\* lines 61-64
RemainingOf(is_active, monthly_quota, used_this_month, trial_left) ==
  IF is_active THEN Max(0, monthly_quota - used_this_month)
  ELSE Max(0, trial_left)

get_user_quota(u) ==
  IF ~Exists(u)
  THEN [trial_left |-> trial_requests, plan_id |-> None, plan_until |-> None,
        monthly_quota |-> 0, used_this_month |-> 0,
        remaining |-> trial_requests, is_trial |-> TRUE, is_active |-> TRUE]
  ELSE LET usr == users[u]
           is_active == PlanActive(usr, now)
           monthly_quota == IF is_active THEN PlanById(usr.plan_id).monthly_quota ELSE 0
           used == UsedThisMonth(u, now)
       IN [trial_left |-> usr.trial_left,
           plan_id |-> IF is_active THEN usr.plan_id ELSE None,
           plan_until |-> usr.plan_until,
           monthly_quota |-> monthly_quota, used_this_month |-> used,
           remaining |-> RemainingOf(is_active, monthly_quota, used, usr.trial_left),
           is_trial |-> ~is_active, is_active |-> is_active]

can_make_request(u) == get_user_quota(u).remaining > 0

-----------------------------------------------------------------------------
(* Bookkeeping shared by the handlers *)

Idle == [op |-> "idle"]

\* a call of task p ends: what it was, for whom, with which arguments and result
ReturnWith(p, op, u, arg, ret) ==
  /\ pc' = [pc EXCEPT ![p] = "idle"]
  /\ loc' = [loc EXCEPT ![p] = Idle]
  /\ last' = [op |-> op, user_id |-> u, arg |-> arg, ret |-> ret]

Return(p, op, u, ret) == ReturnWith(p, op, u, <<>>, ret)

\* a new call is taken up by the first free task (tasks are interchangeable);
\* hist.budget bounds the calls of one behaviour
CanStart(p) ==
  /\ pc[p] = "idle"
  /\ \A q \in Procs : q < p => pc[q] # "idle"
  /\ hist.budget > 0

Started == [hist EXCEPT !.budget = @ - 1, !.calls = @ + 1]

-----------------------------------------------------------------------------
(* BillingService.consume_request and _log_usage *)

\* the chat turn a billing call runs in; NoTurn for a call made on its own
NoTurn == [op |-> "none"]

\* (mutant) the provider is called before the quota is consumed
StepAfter_ProviderFirst(stage) ==
  CASE stage = "start" -> "dialog"
    [] stage = "dialog" -> "save_user"
    [] stage = "save_user" -> "history"
    [] stage = "history" -> "generate"
    [] stage = "generate" -> "receive"
    [] stage = "receive" -> "consume"
    [] stage = "consume" -> "touch"

\* the statements of a chat turn in the order of the router (chat.py 54-154,
\* 171-268): the step a turn goes on to after each step that passed
StepAfter(stage) ==
  CASE stage = "start" -> "dialog"
    [] stage = "dialog" -> "save_user"
    [] stage = "save_user" -> "history"
    [] stage = "history" -> "consume"
    [] stage = "consume" -> "generate"
    [] stage = "generate" -> "receive"
    [] stage = "receive" -> "touch"

\* (mutant) the turn goes on to the provider whatever consume_request returned
ConsumeReturns_Regardless(p, u, turn, ret) ==
  IF turn.op = "none" THEN Return(p, "consume_request", u, ret)
  ELSE /\ pc' = [pc EXCEPT ![p] = "generate"]
       /\ loc' = [loc EXCEPT ![p] = turn]
       /\ UNCHANGED last

\* consume_request hands its result to its caller.  Inside a chat turn
\* (chat.py 115-121) False is answered with 402 and True lets the turn go on to
\* the provider; an exception leaves the router as a 500.
ConsumeReturns(p, u, turn, ret) ==
  IF turn.op = "none" THEN Return(p, "consume_request", u, ret)
  ELSE IF ret = "true"
  THEN /\ pc' = [pc EXCEPT ![p] = StepAfter("consume")]
       /\ loc' = [loc EXCEPT ![p] = turn]
       /\ UNCHANGED last
  ELSE ReturnWith(p, turn.op, u, turn.arg,
                  IF ret = "false" THEN "402_consume" ELSE "500")

\* (mutant) a user without a plan is served whatever the trial balance
ConsumeBranch_NoTrialCheck(usr) ==
  IF ~usr.exists THEN "none"
  ELSE IF PlanActive(usr, now) THEN "plan"
  ELSE "trial"

\* lines 93-109: the branch consume_request takes on the user row it selected
ConsumeBranch(usr) ==
  IF ~usr.exists THEN "none"
  ELSE IF PlanActive(usr, now) THEN "plan"
  ELSE IF usr.trial_left > 0 THEN "trial"
  ELSE "none"

\* lines 88-109: SELECT the user row and choose the branch.
ConsumeSelect(p, u, turn) ==
  LET branch == ConsumeBranch(users[u])
  IN IF branch = "none"
     THEN ConsumeReturns(p, u, turn, "false")
     ELSE /\ pc' = [pc EXCEPT ![p] = "log_usage"]
          /\ loc' = [loc EXCEPT ![p] =
               [op |-> "consume_request", user_id |-> u, branch |-> branch, turn |-> turn,
                trial_left |-> IF branch = "trial" THEN users[u].trial_left - 1
                               ELSE users[u].trial_left]]
          /\ UNCHANGED last

CR_Start(p, u) ==
  /\ CanStart(p)
  /\ UNCHANGED <<chat, users, purchases, usage, promo, now>>
  /\ hist' = Started
  /\ ConsumeSelect(p, u, NoTurn)

\* lines 115-137: SELECT today's Usage row; scalar_one_or_none raises on two rows,
\* and the session is then rolled back by its owner.
LU_Read(p) ==
  /\ pc[p] = "log_usage"
  /\ UNCHANGED <<chat, users, purchases, usage, promo, now, hist>>
  /\ LET l == loc[p]
         u == l.user_id
         rows == UsageRowsOn(u, now)
     IN IF Cardinality(rows) > 1
        THEN ConsumeReturns(p, u, l.turn, "error")
        ELSE /\ pc' = [pc EXCEPT ![p] = "commit_usage"]
             /\ UNCHANGED last
             /\ loc' = [loc EXCEPT ![p] =
                  IF rows = {}
                  THEN [op |-> "consume_request", user_id |-> u, branch |-> l.branch,
                        turn |-> l.turn, trial_left |-> l.trial_left, today |-> now,
                        row |-> 0, requests |-> 1, total_tokens |-> DefaultTokens]
                  ELSE LET i == CHOOSE i \in rows : TRUE
                       IN [op |-> "consume_request", user_id |-> u, branch |-> l.branch,
                           turn |-> l.turn, trial_left |-> l.trial_left, today |-> now,
                           row |-> i, requests |-> usage[i].requests + 1,
                           total_tokens |-> usage[i].total_tokens + DefaultTokens]]

\* (mutant) every call inserts a new row
UsageAfterLog_AlwaysInsert(l) ==
  Append(usage, [user_id |-> l.user_id, date |-> now,
                 requests |-> 1, total_tokens |-> DefaultTokens])

\* (mutant) the usage write is dropped
UsageAfterLog_Dropped(l) == usage

\* the Usage table after the flush of _log_usage: UPDATE of the row read, or INSERT
\* of a new row whose date column takes its default at insert time.
UsageAfterLog(l) ==
  IF l.row = 0
  THEN Append(usage, [user_id |-> l.user_id, date |-> now,
                      requests |-> l.requests, total_tokens |-> l.total_tokens])
  ELSE [usage EXCEPT ![l.row] = [@ EXCEPT !.requests = l.requests,
                                          !.total_tokens = l.total_tokens]]

\* (mutant) the trial decrement is not written
UsersAfterConsume_NoDecrement(l) == users

\* (mutant) the flush writes a decrement on the plan branch as well
UsersAfterConsume_PlanDecrement(l) ==
  [users EXCEPT ![l.user_id].trial_left =
     IF l.branch = "trial" THEN l.trial_left ELSE l.trial_left - 1]

\* the users table after the flush: the trial branch writes the decremented value.
UsersAfterConsume(l) ==
  IF l.branch = "trial"
  THEN [users EXCEPT ![l.user_id].trial_left = l.trial_left]
  ELSE users

\* line 139 (and 106): one commit flushes the trial decrement and the usage write.
LU_Commit(p) ==
  /\ pc[p] = "commit_usage"
  /\ LET l == loc[p]
     IN /\ usage' = UsageAfterLog(l)
        /\ users' = UsersAfterConsume(l)
        /\ hist' = [hist EXCEPT
             !.trialOk[l.user_id] = IF l.branch = "trial" THEN @ + 1 ELSE @,
             !.okOn[l.user_id][l.today] = @ + 1]
        /\ ConsumeReturns(p, l.user_id, l.turn, "true")
  /\ UNCHANGED <<chat, purchases, promo, now>>

-----------------------------------------------------------------------------
(* OpenAIService.count_tokens and truncate_messages *)

\* a text is the sequence of its characters: Text(c, n) has n of them
Text(c, n) == [i \in 1..n |-> c]

\* len(text) // 3
count_tokens(text) == Len(text) \div 3

\* the loop over reversed(messages), at message i with total_tokens spent so
\* far: a message that fits is put in front of the result, the first one that
\* does not fit ends the loop
RECURSIVE TruncateLoop(_, _, _, _, _)
TruncateLoop(messages, max_tokens, i, total_tokens, truncated) ==
  IF i = 0 THEN truncated
  ELSE LET message_tokens == count_tokens(messages[i].content)
       IN IF total_tokens + message_tokens <= max_tokens
          THEN TruncateLoop(messages, max_tokens, i - 1, total_tokens + message_tokens,
                            <<messages[i]>> \o truncated)
          ELSE truncated

\* (mutant) a message must leave a token of the budget free to be taken
truncate_messages_Strict(messages, max_tokens) ==
  TruncateLoop(messages, max_tokens - 1, Len(messages), 0, <<>>)

truncate_messages(messages, max_tokens) ==
  TruncateLoop(messages, max_tokens, Len(messages), 0, <<>>)

-----------------------------------------------------------------------------
(* Chat router: send_message (chat.py 46-160) and stream_message (163-282).
   Both take the same steps; stream_message runs the last three inside the
   generator of its StreamingResponse, which the client may abandon. *)

ProviderOutcomes == {"reply", "apology"}

\* request.message; a fragment of the provider's answer; the text that
\* chat_completion yields in place of a failure
UserText == Text("u", 4)
ReplyChunk == Text("r", 3)
ApologyText == Text("!", 6)

\* SELECT messages of the dialog ORDER BY created_at, as role and content
History(dlg) ==
  LET RECURSIVE Rows(_)
      Rows(n) == IF n = 0 THEN <<>>
                 ELSE IF chat.messages[n].dialog_id = dlg
                 THEN Append(Rows(n - 1), [role |-> chat.messages[n].role,
                                           content |-> chat.messages[n].content])
                 ELSE Rows(n - 1)
  IN Rows(Len(chat.messages))

\* the steps of a turn leave their name in the turn's record of task p
Step(h, p, name) == [h EXCEPT !.steps[p] = Append(@, name)]

\* truncate_messages called on the history of a dialog
TM_Call(dlg, max_tokens) ==
  /\ last' = [op |-> "truncate_messages", user_id |-> 0, arg |-> <<dlg, max_tokens>>,
              ret |-> truncate_messages(History(dlg), max_tokens)]
  /\ UNCHANGED <<users, purchases, usage, promo, chat, now, pc, loc, hist>>

\* lines 54-60 and 171-177: can_make_request, 402 when the view leaves nothing
TurnStart(p, op, u, dlg) ==
  /\ CanStart(p)
  /\ UNCHANGED <<chat, users, purchases, usage, promo, now>>
  /\ IF ~can_make_request(u)
     THEN /\ ReturnWith(p, op, u, <<dlg>>, "402_quota")
          /\ hist' = [Started EXCEPT !.deniedAt[u] = @ \cup {users[u].trial_left},
                                     !.steps[p] = <<"can_make_request">>]
     ELSE /\ pc' = [pc EXCEPT ![p] = StepAfter("start")]
          /\ loc' = [loc EXCEPT ![p] = [op |-> op, user_id |-> u,
                                        dialog_id |-> dlg, arg |-> <<dlg>>]]
          /\ hist' = [Started EXCEPT !.steps[p] = <<"can_make_request">>]
          /\ UNCHANGED last

SM_Start(p, u, dlg) == TurnStart(p, "send_message", u, dlg)

ST_Start(p, u, dlg) == TurnStart(p, "stream_message", u, dlg)

\* lines 62-81: the dialog named by the request must be the user's own (404
\* otherwise); without one a new Dialog is committed, which the foreign key
\* dialogs.user_id -> users.id refuses for a user without a row (500)
SM_Dialog(p) ==
  /\ pc[p] = "dialog"
  /\ hist' = Step(hist, p, "dialog")
  /\ UNCHANGED <<users, purchases, usage, promo, now>>
  /\ LET l == loc[p]
         d == l.dialog_id
     IN IF d = None /\ ~Exists(l.user_id)
        THEN /\ ReturnWith(p, l.op, l.user_id, l.arg, "500")
             /\ UNCHANGED chat
        ELSE IF d = None
        THEN /\ chat' = [chat EXCEPT !.dialogs =
                           Append(@, [user_id |-> l.user_id, updated_at |-> now])]
             /\ pc' = [pc EXCEPT ![p] = StepAfter("dialog")]
             /\ loc' = [loc EXCEPT ![p].dialog_id = Len(chat.dialogs) + 1]
             /\ UNCHANGED last
        ELSE IF d \in 1..Len(chat.dialogs) /\ chat.dialogs[d].user_id = l.user_id
        THEN /\ pc' = [pc EXCEPT ![p] = StepAfter("dialog")]
             /\ UNCHANGED <<chat, loc, last>>
        ELSE /\ ReturnWith(p, l.op, l.user_id, l.arg, "404")
             /\ UNCHANGED chat

\* lines 83-91: the user message is committed
SM_SaveUser(p) ==
  /\ pc[p] = "save_user"
  /\ chat' = [chat EXCEPT !.messages =
                Append(@, [dialog_id |-> loc[p].dialog_id, role |-> "user",
                           content |-> UserText, created_at |-> now])]
  /\ pc' = [pc EXCEPT ![p] = StepAfter("save_user")]
  /\ hist' = Step(hist, p, "save_user")
  /\ UNCHANGED <<users, purchases, usage, promo, now, loc, last>>

\* lines 93-112: the dialog's messages are read and cut to the context limit
SM_History(p) ==
  /\ pc[p] = "history"
  /\ pc' = [pc EXCEPT ![p] = StepAfter("history")]
  /\ loc' = [loc EXCEPT ![p] =
       [op |-> loc[p].op, user_id |-> loc[p].user_id, dialog_id |-> loc[p].dialog_id,
        arg |-> loc[p].arg,
        openai_messages |-> truncate_messages(History(loc[p].dialog_id), ContextLimit)]]
  /\ hist' = Step(hist, p, "truncate")
  /\ UNCHANGED <<chat, users, purchases, usage, promo, now, last>>

\* line 115: consume_request in the turn's session
SM_Consume(p) ==
  /\ pc[p] = "consume"
  /\ hist' = Step(hist, p, "consume_request")
  /\ UNCHANGED <<chat, users, purchases, usage, promo, now>>
  /\ ConsumeSelect(p, loc[p].user_id, loc[p])

\* lines 124-130: the provider is called with the truncated history
SM_Generate(p) ==
  /\ pc[p] = "generate"
  /\ pc' = [pc EXCEPT ![p] = StepAfter("generate")]
  /\ loc' = [loc EXCEPT ![p] =
       [op |-> loc[p].op, user_id |-> loc[p].user_id, dialog_id |-> loc[p].dialog_id,
        arg |-> loc[p].arg, response_content |-> <<>>, chunks |-> 0, done |-> FALSE]]
  /\ hist' = [Step(hist, p, "provider") EXCEPT !.provider = @ + 1]
  /\ UNCHANGED <<chat, users, purchases, usage, promo, now, last>>

\* lines 125-131 and 244-251: response_content += chunk.  chat_completion
\* yields the fragments of the answer, or, when the provider fails, a text of
\* apology as its last fragment (openai_service.py 35-54)
SM_Receive(p, outcome) ==
  /\ pc[p] = "receive"
  /\ ~loc[p].done
  /\ loc' = [loc EXCEPT
       ![p].response_content = @ \o (IF outcome = "reply" THEN ReplyChunk ELSE ApologyText),
       ![p].chunks = @ + 1,
       ![p].done = (outcome = "apology" \/ loc[p].chunks + 1 = MaxChunks)]
  /\ UNCHANGED <<chat, users, purchases, usage, promo, now, pc, last, hist>>

\* lines 253-268: the client of a streamed turn goes away while the fragments
\* are sent: the generator is closed at its yield, which neither its except
\* clause nor the statements after the loop see
ST_Abandon(p) ==
  /\ pc[p] = "receive"
  /\ loc[p].op = "stream_message"
  /\ loc[p].chunks > 0
  /\ ReturnWith(p, loc[p].op, loc[p].user_id, loc[p].arg, "abandoned")
  /\ UNCHANGED <<chat, users, purchases, usage, promo, now, hist>>

\* lines 133-142 and 253-261: the assistant message is committed
SM_SaveReply(p) ==
  /\ pc[p] = "receive"
  /\ loc[p].done
  /\ chat' = [chat EXCEPT !.messages =
                Append(@, [dialog_id |-> loc[p].dialog_id, role |-> "assistant",
                           content |-> loc[p].response_content, created_at |-> now])]
  /\ pc' = [pc EXCEPT ![p] = StepAfter("receive")]
  /\ loc' = [loc EXCEPT ![p] = [op |-> loc[p].op, user_id |-> loc[p].user_id,
                                dialog_id |-> loc[p].dialog_id, arg |-> loc[p].arg,
                                created_at |-> now]]
  /\ hist' = Step(hist, p, "save_assistant")
  /\ UNCHANGED <<users, purchases, usage, promo, now, last>>

\* lines 145-154 and 263-268: dialog.updated_at = ai_message.created_at,
\* commit, answer
SM_Touch(p) ==
  /\ pc[p] = "touch"
  /\ chat' = [chat EXCEPT !.dialogs[loc[p].dialog_id].updated_at = loc[p].created_at]
  /\ hist' = [Step(hist, p, "touch") EXCEPT !.answered[loc[p].user_id] = @ + 1]
  /\ ReturnWith(p, loc[p].op, loc[p].user_id, loc[p].arg, "200")
  /\ UNCHANGED <<users, purchases, usage, promo, now>>

-----------------------------------------------------------------------------
(* BillingService.add_trial_requests, reached from admin give_requests with any
   integer amount. *)

Amounts == {-1, 1}

AT_Start(p, u, amount) ==
  /\ CanStart(p)
  /\ UNCHANGED <<chat, users, purchases, usage, promo, now>>
  /\ hist' = Started
  /\ IF ~Exists(u)
     THEN Return(p, "add_trial_requests", u, "false")
     ELSE /\ users[u].trial_left + amount <= hist.trialCap
          /\ pc' = [pc EXCEPT ![p] = "commit_trial"]
          /\ loc' = [loc EXCEPT ![p] = [op |-> "add_trial_requests", user_id |-> u,
                                        amount |-> amount,
                                        trial_left |-> users[u].trial_left + amount]]
          /\ UNCHANGED last

AT_Commit(p) ==
  /\ pc[p] = "commit_trial"
  /\ users' = [users EXCEPT ![loc[p].user_id].trial_left = loc[p].trial_left]
  /\ hist' = [hist EXCEPT !.granted[loc[p].user_id] = @ + loc[p].amount]
  /\ Return(p, "add_trial_requests", loc[p].user_id, "true")
  /\ UNCHANGED <<chat, purchases, usage, promo, now>>

-----------------------------------------------------------------------------
(* admin router: ban_user / unban_user *)

\* (mutant) a ban also takes the trial balance away
UsersAfterBan_ClearsTrial(u, flag) ==
  [users EXCEPT ![u].banned = flag, ![u].trial_left = IF flag THEN 0 ELSE @]

\* user.banned = True / False and commit: the UPDATE writes that one column
UsersAfterBan(u, flag) == [users EXCEPT ![u].banned = flag]

\* SELECT the user; 404 when there is no row
BN_Start(p, u, flag) ==
  /\ CanStart(p)
  /\ UNCHANGED <<chat, users, purchases, usage, promo, now>>
  /\ hist' = Started
  /\ IF ~Exists(u)
     THEN Return(p, IF flag THEN "ban_user" ELSE "unban_user", u, "404")
     ELSE /\ pc' = [pc EXCEPT ![p] = "commit_ban"]
          /\ loc' = [loc EXCEPT ![p] = [op |-> IF flag THEN "ban_user" ELSE "unban_user",
                                        user_id |-> u, banned |-> flag]]
          /\ UNCHANGED last

BN_Commit(p) ==
  /\ pc[p] = "commit_ban"
  /\ users' = UsersAfterBan(loc[p].user_id, loc[p].banned)
  /\ Return(p, loc[p].op, loc[p].user_id, "200")
  /\ UNCHANGED <<chat, purchases, usage, promo, now, hist>>

-----------------------------------------------------------------------------
(* cmd_start: first contact creates the User row with the configured trial. *)

NewUser(t) == [exists |-> TRUE, trial_left |-> t, plan_id |-> None,
               plan_until |-> None, banned |-> FALSE]

Register(u) ==
  /\ ~Exists(u)
  /\ users' = [users EXCEPT ![u] = NewUser(trial_requests)]
  /\ hist' = [hist EXCEPT !.trial0[u] = trial_requests]
  /\ UNCHANGED <<chat, purchases, usage, promo, now, pc, loc, last>>

-----------------------------------------------------------------------------
(* The quota view as a call: GET /quota (chat.py 36-43) and can_make_request
   (billing_service 77-82) run get_user_quota in the caller's session. *)

\* (mutant) the view of an unknown user creates the row it describes
UsersAfterQuotaRead_Creates(u) ==
  IF Exists(u) THEN users ELSE [users EXCEPT ![u] = NewUser(trial_requests)]

\* the users table after get_user_quota: the function only SELECTs (lines 21-24
\* and 50-57); it adds nothing to the session and never commits
UsersAfterQuotaRead(u) == users

\* the call returns the view; ret is what can_make_request makes of it
GQ_Call(p, u) ==
  /\ CanStart(p)
  /\ hist' = Started
  /\ users' = UsersAfterQuotaRead(u)
  /\ ReturnWith(p, "get_user_quota", u, get_user_quota(u),
                IF can_make_request(u) THEN "true" ELSE "false")
  /\ UNCHANGED <<chat, purchases, usage, promo, now>>

-----------------------------------------------------------------------------
(* PaymentService: the two reconciler paths *)

\* The payments the gateway knows: object.id -> object.metadata.
GatewayPayments ==
  [pay_1 |-> [user_id |-> 1, plan_name |-> "Pro"],
   pay_2 |-> [user_id |-> 1, plan_name |-> "Business"],
   pay_3 |-> [user_id |-> 2, plan_name |-> "Pro"],
   pay_4 |-> [user_id |-> 1, plan_name |-> "Gold"]]

PaymentIds == DOMAIN GatewayPayments

\* webhook deliveries: <<object.id, object.status, signature matches>>
WebhookInputs ==
  {<<"pay_1", "succeeded", TRUE>>, <<"pay_1", "succeeded", FALSE>>,
   <<"pay_1", "canceled", TRUE>>, <<"pay_2", "succeeded", TRUE>>,
   <<"pay_3", "succeeded", TRUE>>, <<"pay_4", "succeeded", TRUE>>}

\* in-app confirmations: <<user_id, invoice_payload, telegram_payment_charge_id>>
StarsInputs == {<<1, "Pro", "ch_1">>, <<2, "Pro", "ch_1">>, <<1, "Gold", "ch_1">>}

UserIdStr(u) == IF u = 1 THEN "1" ELSE "2"

\* payload->>'yoomoney_payment_id'
YooKey(payment_id) == <<payment_id>>

\* f"stars_{user_id}_{plan_name}_{telegram_charge_id}"
StarsKey(u, plan_name, charge) == <<"stars", UserIdStr(u), plan_name, charge>>

\* (mutant) the duplicate check finds nothing
ExistingPurchases_Blind(via, key) == {}

\* (mutant) only the gateway path finds its earlier Purchase
ExistingPurchases_GatewayOnly(via, key) ==
  {i \in 1..Len(purchases) : /\ via = "yoomoney"
                             /\ purchases[i].via = via /\ purchases[i].key = key}

\* SELECT id FROM purchases WHERE payload->>'<field of that path>' = '<key>'
ExistingPurchases(via, key) ==
  {i \in 1..Len(purchases) : purchases[i].via = via /\ purchases[i].key = key}

\* (The raw SQL strings handed to session.execute are taken to run as written.)
\* The steps both paths share once the signal is accepted (yoomoney 190-226,
\* stars 69-102): duplicate check, plan lookup, Purchase(status="completed") added
\* to the session.
Reconcile(p, op, via, key, u, plan_name, arg) ==
  LET existing == ExistingPurchases(via, key)
      plan == PlanIdByName(plan_name)
  IN IF Cardinality(existing) > 1
     THEN /\ ReturnWith(p, op, u, arg, "error")
          /\ hist' = Started
     ELSE IF existing # {}
     THEN /\ ReturnWith(p, op, u, arg, "true")
          /\ hist' = [Started EXCEPT !.dups = @ + 1]
     ELSE IF plan = None
     THEN /\ ReturnWith(p, op, u, arg, "false")
          /\ hist' = Started
     ELSE /\ pc' = [pc EXCEPT ![p] = "activate"]
          /\ loc' = [loc EXCEPT ![p] = [op |-> op, user_id |-> u, plan_id |-> plan,
                                        via |-> via, key |-> key, arg |-> arg,
                                        status |-> "completed", completed_at |-> now]]
          /\ hist' = Started
          /\ UNCHANGED last

\* the shared secret of the webhook, and a key somebody else signs with
WebhookSecret == "secret"
OtherKey == "guess"

\* hmac.new(key, json.dumps(webhook_data), sha256).hexdigest(): the digest is
\* determined by the key and the payload
Signature(key, payment_id, status) == <<"hmac", key, payment_id, status>>

\* (mutant) any signature is accepted
VerifySignature_Skipped(payment_id, status, signature) == TRUE

\* _verify_yoomoney_signature, lines 242-259
VerifySignature(payment_id, status, signature) ==
  signature = Signature(WebhookSecret, payment_id, status)

\* process_yoomoney_webhook, lines 170-226; `signed` tells whether the sender
\* had the secret
YW_Start(p, payment_id, status, signed) ==
  /\ CanStart(p)
  /\ UNCHANGED <<chat, users, purchases, usage, promo, now>>
  /\ LET meta == GatewayPayments[payment_id]
         arg == <<payment_id, status, IF signed THEN "signed" ELSE "forged">>
         signature == Signature(IF signed THEN WebhookSecret ELSE OtherKey,
                                payment_id, status)
     IN IF ~VerifySignature(payment_id, status, signature)
        THEN /\ ReturnWith(p, "yoomoney_webhook", meta.user_id, arg, "false")
             /\ hist' = Started
        ELSE IF status # "succeeded"
        THEN /\ ReturnWith(p, "yoomoney_webhook", meta.user_id, arg, "false")
             /\ hist' = Started
        ELSE Reconcile(p, "yoomoney_webhook", "yoomoney", YooKey(payment_id),
                       meta.user_id, meta.plan_name, arg)

\* the router (payments.py 46-50): a request without the X-YooKassa-Signature
\* header is answered 400 and never reaches the service
YW_NoSignature(p, payment_id, status) ==
  /\ CanStart(p)
  /\ hist' = Started
  /\ ReturnWith(p, "yoomoney_webhook", GatewayPayments[payment_id].user_id,
                <<payment_id, status, "missing">>, "400")
  /\ UNCHANGED <<chat, users, purchases, usage, promo, now>>

\* the router's answer to what the service returned (payments.py 59-67); an
\* exception of the service leaves the router unhandled
WebhookAnswer(ret) ==
  IF ret = "true" THEN 200 ELSE IF ret \in {"false", "400"} THEN 400 ELSE 500

\* process_stars_payment, lines 66-102
SP_Start(p, u, plan_name, charge) ==
  /\ CanStart(p)
  /\ UNCHANGED <<chat, users, purchases, usage, promo, now>>
  /\ Reconcile(p, "stars_payment", "stars", StarsKey(u, plan_name, charge),
               u, plan_name, <<plan_name, charge>>)

\* (mutant) the Purchase stays on record although the activation failed
PurchasesAfterFailedActivation_Kept(l) == Append(purchases, l)

\* The store after a reconciliation whose activate_plan found no user row:
\* activate_plan returns False and the caller rolls the session back.
PurchasesAfterFailedActivation(l) == purchases

\* (mutant) buying while a plan is running ends that plan today
PlanUntilAfterActivation_RenewalEndsNow(usr) ==
  IF PlanActive(usr, now) THEN now ELSE now + duration_days

\* (mutant) an unexpired plan is extended from its current end
PlanUntilAfterActivation_Stacked(usr) ==
  IF PlanActive(usr, now) THEN usr.plan_until + duration_days ELSE now + duration_days

\* line 160: plan_until = utcnow() + timedelta(days=duration_days), whatever the
\* row holds
PlanUntilAfterActivation(usr) == now + duration_days

\* activate_plan (billing_service 151-164) inside the reconciler's session: the
\* pending Purchase and the user's plan columns are written by one commit.
ActivateAndCommit(p) ==
  /\ pc[p] = "activate"
  /\ LET l == loc[p]
         u == l.user_id
         row == [user_id |-> u, plan_id |-> l.plan_id, via |-> l.via,
                 status |-> l.status, key |-> l.key, completed_at |-> l.completed_at]
     IN IF ~Exists(u)
        THEN /\ purchases' = PurchasesAfterFailedActivation(row)
             /\ hist' = [hist EXCEPT !.aborted = @ \cup {l.key}]
             /\ UNCHANGED users
             /\ ReturnWith(p, l.op, u, l.arg, "false")
        ELSE /\ purchases' = Append(purchases, row)
             /\ users' = [users EXCEPT ![u].plan_id = l.plan_id,
                                       ![u].plan_until = PlanUntilAfterActivation(users[u])]
             /\ hist' = [hist EXCEPT !.activated = Append(@, l.key)]
             /\ ReturnWith(p, l.op, u, l.arg, "true")
  /\ UNCHANGED <<chat, usage, promo, now>>

-----------------------------------------------------------------------------
(* BillingService.validate_promo / apply_promo *)

PromoCodes == {"SALE", "NOPE"}

\* (mutant) the expiry date is not looked at
validate_promo_IgnoresExpiry(code) ==
  IF ~(promo.code = code /\ promo.is_active) THEN None
  ELSE IF promo.used >= promo.max_uses THEN None
  ELSE promo.id

\* lines 216-244: the promo's id when the code is applicable, else None
validate_promo(code) ==
  IF ~(promo.code = code /\ promo.is_active) THEN None
  ELSE IF promo.until # None /\ promo.until < now THEN None
  ELSE IF promo.used >= promo.max_uses THEN None
  ELSE promo.id

\* a caller redeems a code: validate_promo, then apply_promo on the id returned
VP_Start(p, code) ==
  /\ CanStart(p)
  /\ hist' = Started
  /\ UNCHANGED <<chat, users, purchases, usage, promo, now>>
  /\ IF validate_promo(code) = None
     THEN ReturnWith(p, "validate_promo", 0, <<code>>, "none")
     ELSE /\ pc' = [pc EXCEPT ![p] = "apply_promo"]
          /\ loc' = [loc EXCEPT ![p] = [op |-> "validate_promo", code |-> code,
                                        promo_id |-> validate_promo(code)]]
          /\ UNCHANGED last

\* apply_promo lines 250-258: SELECT the promo, used += 1 in the session
AP_Read(p) ==
  /\ pc[p] = "apply_promo"
  /\ UNCHANGED <<chat, users, purchases, usage, promo, now, hist>>
  /\ IF promo.id # loc[p].promo_id
     THEN Return(p, "apply_promo", 0, "false")
     ELSE /\ pc' = [pc EXCEPT ![p] = "commit_promo"]
          /\ loc' = [loc EXCEPT ![p] = [op |-> "apply_promo", promo_id |-> promo.id,
                                        used |-> promo.used + 1]]
          /\ UNCHANGED last

\* apply_promo line 259: commit
AP_Commit(p) ==
  /\ pc[p] = "commit_promo"
  /\ promo' = [promo EXCEPT !.used = loc[p].used]
  /\ hist' = [hist EXCEPT !.redeemed = @ + 1]
  /\ Return(p, "apply_promo", 0, "true")
  /\ UNCHANGED <<chat, users, purchases, usage, now>>

-----------------------------------------------------------------------------
(* The clock: a day passes, or a whole plan period does. *)

Tick(d) ==
  /\ hist.ticks < MaxTicks
  /\ now' = now + d
  /\ hist' = [hist EXCEPT !.ticks = @ + 1]
  /\ UNCHANGED <<chat, users, purchases, usage, promo, pc, loc, last>>

Days == {1 + a + b * duration_days : a \in 0..MaxTicks, b \in 0..MaxTicks}

-----------------------------------------------------------------------------
(* Initial states *)

NoPromo == [id |-> 1, code |-> "SALE", is_active |-> FALSE, until |-> None,
            max_uses |-> 1, used |-> 0]

InitHist(us, budget) ==
  [budget |-> budget, calls |-> 0, ticks |-> 0, trialCap |-> MaxTrial,
   trial0 |-> [u \in UserIds |-> IF us[u].exists THEN us[u].trial_left ELSE 0],
   trialOk |-> [u \in UserIds |-> 0],
   okOn |-> [u \in UserIds |-> [d \in Days |-> 0]],
   activated |-> <<>>, aborted |-> {}, dups |-> 0, redeemed |-> 0,
   granted |-> [u \in UserIds |-> 0],
   deniedAt |-> [u \in UserIds |-> {}],
   answered |-> [u \in UserIds |-> 0], provider |-> 0,
   steps |-> [p \in Procs |-> <<>>]]

InitCommon ==
  /\ usage = <<>>
  /\ chat = NoChat
  /\ now = 1
  /\ pc = [p \in Procs |-> "idle"]
  /\ loc = [p \in Procs |-> Idle]
  /\ last = [op |-> "none", user_id |-> 0, arg |-> <<>>, ret |-> "none"]

\* user 1 exists with some trial balance and no plan; user 2 has no row yet.
InitTrial ==
  /\ InitCommon
  /\ purchases = <<>>
  /\ \E t \in 1..MaxTrial : users = [u \in UserIds |-> IF u = 1 THEN NewUser(t) ELSE NoRow]
  /\ promo = NoPromo
  /\ hist = InitHist(users, MaxConsumeCalls)

\* user 1 exists with any trial balance and no plan; user 2 has no row yet.
InitLedger ==
  /\ InitCommon
  /\ purchases = <<>>
  /\ \E t \in 0..MaxTrial : users = [u \in UserIds |-> IF u = 1 THEN NewUser(t) ELSE NoRow]
  /\ promo = NoPromo
  /\ hist = InitHist(users, MaxCalls)

\* the same, for the payment specifications
InitPay ==
  /\ InitCommon
  /\ purchases = <<>>
  /\ \E t \in 0..MaxTrial : users = [u \in UserIds |-> IF u = 1 THEN NewUser(t) ELSE NoRow]
  /\ promo = NoPromo
  /\ hist = InitHist(users, MaxPayCalls)

\* user 1 with any trial balance, on trial or on a plan bought today through the
\* gateway (the Purchase of that payment is on record)
InitQuotaWith(budget) ==
  /\ InitCommon
  /\ promo = NoPromo
  /\ \E t \in 0..MaxTrial, id \in {"none", "pay_1", "pay_2"} :
       LET plan == IF id = "none" THEN None
                   ELSE PlanIdByName(GatewayPayments[id].plan_name)
           usr == [NewUser(t) EXCEPT !.plan_id = plan,
                     !.plan_until = IF plan = None THEN None ELSE now + duration_days]
       IN /\ users = [u \in UserIds |-> IF u = 1 THEN usr ELSE NoRow]
          /\ purchases = IF plan = None THEN <<>>
                         ELSE <<[user_id |-> 1, plan_id |-> plan, via |-> "yoomoney",
                                 status |-> "completed", key |-> YooKey(id),
                                 completed_at |-> now]>>
          /\ hist = [InitHist(users, budget) EXCEPT
                      !.activated = IF plan = None THEN <<>> ELSE <<YooKey(id)>>]

InitQuota == InitQuotaWith(MaxCalls)

\* the same, for the specification with the quota view
InitView == InitQuotaWith(MaxViewCalls)

\* user 1 has just been registered (cmd_start): the configured trial, no plan
InitChat ==
  /\ InitCommon
  /\ purchases = <<>>
  /\ users = [u \in UserIds |-> IF u = 1 THEN NewUser(trial_requests) ELSE NoRow]
  /\ promo = NoPromo
  /\ hist = [InitHist(users, MaxTurns) EXCEPT !.trialCap = GrantAmount]

\* chat turns of one user who has either one trial request left and no plan,
\* or the capped plan, paid today, and no usage yet
InitTurnsOf(plans) ==
  /\ InitCommon
  /\ purchases = <<>>
  /\ \E plan \in plans :
       users = [u \in UserIds |->
                  IF u # 1 THEN NoRow
                  ELSE IF plan = None THEN NewUser(1)
                  ELSE [NewUser(0) EXCEPT !.plan_id = plan,
                                          !.plan_until = now + duration_days]]
  /\ promo = NoPromo
  /\ hist = InitHist(users, MaxChatCalls)

InitTurns == InitTurnsOf({None, 1})

\* a dialog of user 1 with any messages, user and assistant in turn, of any
\* length; nothing else has happened
InitDialog ==
  /\ usage = <<>>
  /\ purchases = <<>>
  /\ promo = NoPromo
  /\ now = 1
  /\ pc = [p \in Procs |-> "idle"]
  /\ loc = [p \in Procs |-> Idle]
  /\ last = [op |-> "none", user_id |-> 0, arg |-> <<>>, ret |-> "none"]
  /\ users = [u \in UserIds |-> IF u = 1 THEN NewUser(trial_requests) ELSE NoRow]
  /\ \E n \in 0..MaxHistory : \E chars \in [1..n -> 0..MaxChars] :
       chat = [dialogs |-> <<[user_id |-> 1, updated_at |-> now]>>,
               messages |-> [i \in 1..n |->
                  [dialog_id |-> 1,
                   role |-> IF i % 2 = 1 THEN "user" ELSE "assistant",
                   content |-> Text("x", chars[i]), created_at |-> now]]]
  /\ hist = InitHist(users, 0)

\* the user is on the trial, with nothing bought yet
InitLife ==
  /\ InitCommon
  /\ purchases = <<>>
  /\ \E t \in 0..MaxTrial : users = [u \in UserIds |-> IF u = 1 THEN NewUser(t) ELSE NoRow]
  /\ promo = NoPromo
  /\ hist = InitHist(users, MaxLifeCalls)

\* two registered users on the trial and a promo code that can be redeemed
InitFrame ==
  /\ InitCommon
  /\ purchases = <<>>
  /\ \E t \in 0..MaxTrial : users = [u \in UserIds |-> IF u = 1 THEN NewUser(t) ELSE NewUser(1)]
  /\ promo = [NoPromo EXCEPT !.is_active = TRUE, !.max_uses = MaxPromoUses]
  /\ hist = InitHist(users, MaxFrameCalls)

\* user 1 is registered and has paid the gateway for the Pro plan; no
\* delivery of that payment has arrived yet
InitRedeliver ==
  /\ InitCommon
  /\ purchases = <<>>
  /\ \E t \in 0..MaxTrial : users = [u \in UserIds |-> IF u = 1 THEN NewUser(t) ELSE NoRow]
  /\ promo = NoPromo
  /\ hist = InitHist(users, MaxDeliveries)

\* one promo row as the admin surface creates it (used = 0), any limit and expiry
InitPromo ==
  /\ InitCommon
  /\ purchases = <<>>
  /\ users = [u \in UserIds |-> NoRow]
  /\ \E k \in 1..MaxPromoUses, t \in {None, 1}, a \in BOOLEAN :
       promo = [id |-> 1, code |-> "SALE", is_active |-> a, until |-> t,
                max_uses |-> k, used |-> 0]
  /\ hist = InitHist(users, MaxCalls)

-----------------------------------------------------------------------------
(* Specifications *)

AllIdle == \A p \in Procs : pc[p] = "idle"
Alone(p) == \A q \in Procs \ {p} : pc[q] = "idle"

ConsumeStep(p) ==
  \/ \E u \in UserIds : CR_Start(p, u)
  \/ LU_Read(p)
  \/ LU_Commit(p)

GrantStep(p) ==
  \/ \E u \in UserIds, amount \in Amounts : AT_Start(p, u, amount)
  \/ AT_Commit(p)

PaymentStep(p) ==
  \/ \E w \in WebhookInputs : YW_Start(p, w[1], w[2], w[3])
  \/ YW_NoSignature(p, "pay_1", "succeeded")
  \/ \E i \in StarsInputs : SP_Start(p, i[1], i[2], i[3])
  \/ ActivateAndCommit(p)

PromoStep(p) ==
  \/ \E code \in PromoCodes : VP_Start(p, code)
  \/ AP_Read(p)
  \/ AP_Commit(p)

\* a chat turn of user u: the request names the user's first dialog once there is one
TurnDialogs == IF chat.dialogs = <<>> THEN {None} ELSE {1}

ChatStep(p, u, outcomes) ==
  \/ \E dlg \in TurnDialogs : SM_Start(p, u, dlg)
  \/ SM_Dialog(p)
  \/ SM_SaveUser(p)
  \/ SM_History(p)
  \/ SM_Consume(p)
  \/ SM_Generate(p)
  \/ \E outcome \in outcomes : SM_Receive(p, outcome)
  \/ SM_SaveReply(p)
  \/ SM_Touch(p)

\* the steps that only a streamed turn has
StreamStep(p, u) ==
  \/ \E dlg \in TurnDialogs : ST_Start(p, u, dlg)
  \/ ST_Abandon(p)

\* chat turns of a user on the trial running at the same time, while the
\* provider fails
NextChat ==
  \/ \E p \in Procs : ChatStep(p, 1, {"apology"})
  \/ \E p \in Procs : LU_Read(p) \/ LU_Commit(p)

SpecChat == InitTurnsOf({None}) /\ [][NextChat]_vars

\* the same turns of a user on the capped plan, where the provider answers
NextChatPlan ==
  \/ \E p \in Procs : ChatStep(p, 1, {"reply"})
  \/ \E p \in Procs : LU_Read(p) \/ LU_Commit(p)

SpecChatPlan == InitTurnsOf({1}) /\ [][NextChatPlan]_vars

\* plain and streamed turns of the same user, one after another; the provider
\* may fail and the client of a streamed turn may go away
NextTurns ==
  \/ \E p \in Procs : Alone(p) /\ ChatStep(p, 1, ProviderOutcomes)
  \/ \E p \in Procs : Alone(p) /\ StreamStep(p, 1)
  \/ \E p \in Procs : Alone(p) /\ (LU_Read(p) \/ LU_Commit(p))

SpecTurns == InitTurns /\ [][NextTurns]_vars

\* truncate_messages on the messages of a dialog, with any budget
NextTruncate == \E max_tokens \in 0..MaxBudget : TM_Call(1, max_tokens)

SpecTruncate == InitDialog /\ [][NextTruncate]_vars

\* one user's requests, quota views and payment of the capped plan, one after
\* another, while the days pass
NextLife ==
  \/ \E p \in Procs : Alone(p) /\ (CR_Start(p, 1) \/ LU_Read(p) \/ LU_Commit(p))
  \/ \E p \in Procs : Alone(p) /\ YW_Start(p, "pay_1", "succeeded", TRUE)
  \/ \E p \in Procs : Alone(p) /\ ActivateAndCommit(p)
  \/ \E p \in Procs : Alone(p) /\ GQ_Call(p, 1)
  \/ \E d \in {1, duration_days} : AllIdle /\ Tick(d)

SpecLife == InitLife /\ [][NextLife]_vars

BanStep(p) ==
  \/ \E u \in UserIds, flag \in BOOLEAN : BN_Start(p, u, flag)
  \/ BN_Commit(p)

\* every operation of the billing, payment and admin surface on either user,
\* one call after another
NextFrame ==
  \/ \E p \in Procs : Alone(p) /\ ConsumeStep(p)
  \/ \E p \in Procs : Alone(p) /\ GrantStep(p)
  \/ \E p \in Procs : Alone(p) /\ PaymentStep(p)
  \/ \E p \in Procs, u \in UserIds : Alone(p) /\ GQ_Call(p, u)
  \/ \E p \in Procs : Alone(p) /\ PromoStep(p)
  \/ \E p \in Procs : Alone(p) /\ BanStep(p)
  \/ \E d \in {1, duration_days} : AllIdle /\ Tick(d)

SpecFrame == InitFrame /\ [][NextFrame]_vars

\* an admin bans and unbans the user between the user's chat turns
NextBan ==
  \/ \E p \in Procs : Alone(p) /\ ChatStep(p, 1, {"reply"})
  \/ \E p \in Procs : Alone(p) /\ (LU_Read(p) \/ LU_Commit(p))
  \/ \E p \in Procs, flag \in BOOLEAN : Alone(p) /\ BN_Start(p, 1, flag)
  \/ \E p \in Procs : Alone(p) /\ BN_Commit(p)

SpecBan == InitTurns /\ [][NextBan]_vars

\* the gateway delivers the webhook of one succeeded payment again and again;
\* a delivery may arrive while an earlier one is still being processed
NextRedeliver ==
  \/ \E p \in Procs : YW_Start(p, "pay_1", "succeeded", TRUE)
  \/ \E p \in Procs : ActivateAndCommit(p)
  \/ \E d \in {1, duration_days} : Tick(d)

SpecRedeliver == InitRedeliver /\ [][NextRedeliver]_vars

\* concurrent consume_request calls on a trial user
NextConsume ==
  \/ \E p \in Procs : ConsumeStep(p)
  \/ \E d \in {1, duration_days} : Tick(d)

SpecConsume == InitTrial /\ [][NextConsume]_vars

\* every task may run any quota or payment operation, interleaved at the awaits
Next ==
  \/ \E p \in Procs : ConsumeStep(p)
  \/ \E p \in Procs : GrantStep(p)
  \/ \E p \in Procs : PaymentStep(p)
  \/ \E u \in UserIds : Register(u)
  \/ \E d \in {1, duration_days} : Tick(d)

Spec == InitLedger /\ [][Next]_vars

\* quota operations issued one after another: a call starts when no other is in
\* flight, and the day changes between calls
NextSeqQuota ==
  \/ \E p \in Procs : Alone(p) /\ ConsumeStep(p)
  \/ \E p \in Procs : Alone(p) /\ GrantStep(p)
  \/ \E d \in {1, duration_days} : AllIdle /\ Tick(d)

SpecSeqQuota == InitQuota /\ [][NextSeqQuota]_vars

\* the quota operations in sequence, with the quota view asked between them
NextSeqView ==
  \/ NextSeqQuota
  \/ \E p \in Procs, u \in UserIds : Alone(p) /\ GQ_Call(p, u)

SpecSeqView == InitView /\ [][NextSeqView]_vars

\* the registered user chats, one message after another, and the provider
\* answers; an admin may grant trial requests once the balance is used up
NextChatSeq ==
  \/ \E p \in Procs : Alone(p) /\ ChatStep(p, 1, {"reply"})
  \/ \E p \in Procs : Alone(p) /\ (LU_Read(p) \/ LU_Commit(p))
  \/ \E p \in Procs : Alone(p) /\ (AT_Start(p, 1, GrantAmount) \/ AT_Commit(p))
  \/ \E d \in {1, duration_days} : AllIdle /\ Tick(d)

SpecChatSeq == InitChat /\ [][NextChatSeq]_vars

\* payment deliveries processed one after another
NextSeqPay ==
  \/ \E p \in Procs : Alone(p) /\ PaymentStep(p)
  \/ \E u \in UserIds : AllIdle /\ Register(u)
  \/ \E d \in {1, duration_days} : AllIdle /\ Tick(d)

SpecSeqPay == InitPay /\ [][NextSeqPay]_vars

\* concurrent reconciliations
NextPay ==
  \/ \E p \in Procs : PaymentStep(p)
  \/ \E u \in UserIds : Register(u)
  \/ Tick(1)

SpecPay == InitPay /\ [][NextPay]_vars

\* concurrent promo redemptions
NextPromo ==
  \/ \E p \in Procs : PromoStep(p)
  \/ \E d \in {1, duration_days} : Tick(d)

SpecPromo == InitPromo /\ [][NextPromo]_vars

-----------------------------------------------------------------------------
(* Claims *)

Count(seq, x) == Cardinality({i \in 1..Len(seq) : seq[i] = x})

CompletedWithKey(via, key) ==
  {i \in 1..Len(purchases) : /\ purchases[i].status = "completed"
                             /\ purchases[i].via = via
                             /\ purchases[i].key = key}

\* C1: with trial_left = N > 0 and no plan, the number of consume_request calls
\* that succeed never exceeds N, also when the calls interleave.
C1_NoOverrun == \A u \in UserIds : hist.trialOk[u] <= hist.trial0[u]

\* C2: for each idempotency key at most one completed Purchase exists, also when
\* two deliveries of the same payment are processed concurrently.
C2_OneCompletedPerKey ==
  \A i, j \in 1..Len(purchases) :
    (/\ purchases[i].status = "completed" /\ purchases[j].status = "completed"
     /\ purchases[i].via = purchases[j].via
     /\ purchases[i].key = purchases[j].key) => i = j

\* the step takes up a gateway delivery with these arguments
WebhookTakenUp(arg) ==
  /\ hist'.calls = hist.calls + 1
  /\ \/ AllIdle' /\ last'.op = "yoomoney_webhook" /\ last'.arg = arg
     \/ \E p \in Procs : /\ pc'[p] = "activate"
                         /\ loc'[p].op = "yoomoney_webhook"
                         /\ loc'[p].arg = arg

\* C3: deliveries processed in sequence: a correctly signed, succeeded webhook whose
\* payment id already has a completed Purchase is answered with success at once and
\* changes nothing in the store (plan_until is not reset); every payment id has at
\* most one completed Purchase and as many activations as Purchases.
C3_WebhookIdempotent ==
  [][\A id \in PaymentIds :
       /\ (WebhookTakenUp(<<id, "succeeded", "signed">>) /\ CompletedWithKey("yoomoney", YooKey(id)) # {})
            => /\ AllIdle'
               /\ last'.ret = "true"
               /\ UNCHANGED <<users, purchases, usage, promo>>
       /\ Cardinality(CompletedWithKey("yoomoney", YooKey(id))') <= 1
       /\ Count(hist.activated, YooKey(id))' = Cardinality(CompletedWithKey("yoomoney", YooKey(id))')
    ]_vars

\* pay_1 was delivered on one day and again on a later day: one Purchase, and the
\* expiry still counts from the first delivery.
C3_Witness ==
  /\ hist.dups >= 1
  /\ last.op = "yoomoney_webhook" /\ last.ret = "true"
  /\ last.arg = <<"pay_1", "succeeded", "signed">>
  /\ Len(purchases) = 1
  /\ purchases[1].key = YooKey("pay_1")
  /\ purchases[1].completed_at < now
  /\ users[1].plan_until = purchases[1].completed_at + duration_days

PlanColumns(u) == <<users[u].plan_id, users[u].plan_until>>

\* C4: every commit of a reconciliation writes the completed Purchase together with
\* the activation it paid for: a step adds a Purchase exactly when it sets the plan
\* columns of that Purchase's user (to the Purchase's plan, expiring duration_days
\* from now), and no other step touches the plan columns.
C4_PurchaseAndActivationAtomic ==
  [][/\ purchases' # purchases =>
          /\ Len(purchases') = Len(purchases) + 1
          /\ SubSeq(purchases', 1, Len(purchases)) = purchases
          /\ LET r == purchases'[Len(purchases')]
             IN /\ r.status = "completed"
                /\ users'[r.user_id].exists
                /\ users'[r.user_id].plan_id = r.plan_id
                /\ users'[r.user_id].plan_until = now + duration_days
                /\ \A u \in UserIds \ {r.user_id} : users'[u] = users[u]
     /\ \A u \in UserIds :
          (users[u].exists /\ users'[u].exists /\ PlanColumns(u)' # PlanColumns(u))
            => purchases' # purchases
    ]_vars

\* a first delivery was committed: the Purchase is on record and its user is on
\* the plan it paid for
C4_Witness ==
  /\ Len(purchases) = 1
  /\ hist.dups = 0
  /\ last.ret = "true" /\ last.op \in {"yoomoney_webhook", "stars_payment"}
  /\ users[purchases[1].user_id].plan_id = purchases[1].plan_id
  /\ users[purchases[1].user_id].plan_until = purchases[1].completed_at + duration_days

\* C5: a user on an active, unexpired plan of unlimited quota may always make a
\* request, whatever the month's usage.
C5_UnlimitedAlwaysAllowed ==
  \A u \in UserIds :
    (/\ Exists(u)
     /\ PlanActive(users[u], now)
     /\ PlanById(users[u].plan_id).monthly_quota = UnlimitedQuota) => can_make_request(u)

\* C6: trial_left >= 0 for every user in every reachable state.
C6_TrialNonNegative == \A u \in UserIds : Exists(u) => users[u].trial_left >= 0

\* C7: used <= max_uses, and at most max_uses redemptions succeed, when every
\* apply_promo follows a validate_promo that returned the promo.
C7_PromoWithinLimit ==
  /\ promo.used <= promo.max_uses
  /\ hist.redeemed <= promo.max_uses

\* C8: calls issued one after another: for every user and day there is no Usage row
\* if no consume_request of that day succeeded, and otherwise exactly one row, whose
\* requests is the number of that day's successful calls (so a later day's calls
\* leave an earlier day's row as it was).
C8_OneRowPerDayCountsCalls ==
  \A u \in UserIds, d \in Days :
    LET rows == UsageRowsOn(u, d)
    IN IF hist.okOn[u][d] = 0 THEN rows = {}
       ELSE /\ Cardinality(rows) = 1
            /\ \A i \in rows : usage[i].requests = hist.okOn[u][d]

\* two calls on one day and one on a later day: two rows, counting 2 and 1
C8_Witness ==
  \E d1, d2 \in Days :
    /\ d1 < d2
    /\ hist.okOn[1][d1] = 2 /\ hist.okOn[1][d2] = 1
    /\ Len(usage) = 2
    /\ usage[1].date = d1 /\ usage[1].requests = 2
    /\ usage[2].date = d2 /\ usage[2].requests = 1

\* C9: at most one Usage row per (user, calendar day) in every reachable state.
C9_UniqueUsageRow ==
  \A u \in UserIds, d \in Days : Cardinality(UsageRowsOn(u, d)) <= 1

\* C10: the committed requests and token counters of a Usage row never decrease
\* from one committed state to the next.
C10_CountersMonotone ==
  [][\A i \in 1..Len(usage) : /\ usage'[i].requests >= usage[i].requests
                              /\ usage'[i].total_tokens >= usage[i].total_tokens]_vars

-----------------------------------------------------------------------------
\* C11: a newly registered user (trial 30, no plan) who chats one message after
\* another is answered for as long as trial requests are left and refused only at
\* zero; between turns get_quota reports remaining = 30 + granted - answered and
\* can_make_request is true exactly while that is positive.  So after 30 answered
\* messages remaining is 0 and can_make_request is false, and after a grant of 10
\* remaining is 10 and can_make_request is true again.
C11_EndToEndTrial ==
  AllIdle =>
    LET left == trial_requests + hist.granted[1] - hist.answered[1]
    IN /\ users[1].trial_left = left
       /\ get_user_quota(1).remaining = left
       /\ can_make_request(1) <=> (left > 0)
       /\ hist.deniedAt[1] \subseteq {0}
       /\ last.ret \in {"none", "true", "200", "402_quota"}

C11_Witness ==
  /\ AllIdle
  /\ hist.answered[1] = trial_requests
  /\ hist.deniedAt[1] = {0}
  /\ hist.granted[1] = GrantAmount
  /\ get_user_quota(1).remaining = GrantAmount
  /\ can_make_request(1)

-----------------------------------------------------------------------------
\* the committed store
Store == <<users, purchases, usage, promo, chat>>

\* this step takes up a call of operation op for user u: the call has either
\* returned at once (last' tells) or is in flight in a task (loc' tells)
CallTakenUp(op, u) ==
  /\ hist'.calls = hist.calls + 1
  /\ \/ pc' = pc /\ last'.op = op /\ last'.user_id = u
     \/ \E p \in Procs : pc'[p] # pc[p] /\ loc'[p].op = op /\ loc'[p].user_id = u

\* C12: consume_request for a user with no active plan and trial_left = 0
\* returns false at once and changes nothing in the store.
C12_ExhaustedTrialRefused ==
  [][\A u \in UserIds :
       (/\ CallTakenUp("consume_request", u)
        /\ Exists(u) /\ ~PlanActive(users[u], now) /\ users[u].trial_left = 0)
       => (pc' = pc /\ last'.ret = "false" /\ UNCHANGED Store)]_vars

C12_Witness ==
  /\ last.op = "consume_request" /\ last.user_id = 1 /\ last.ret = "false"
  /\ Exists(1) /\ ~PlanActive(users[1], now) /\ users[1].trial_left = 0
  /\ usage # <<>>

-----------------------------------------------------------------------------
\* requests recorded for user u on the given day
RequestsOn(u, day) == SumRequests(usage, u, day) - SumRequests(usage, u, day + 1)

\* C13: consume_request for a user whose plan is attached and unexpired is never
\* refused: it is taken up, reads today's usage and commits with result true,
\* adding one request to today's usage and leaving the user row (trial_left,
\* plan_id, plan_until) and everything else as it was, whatever the usage of the
\* month and the plan's quota.
C13_PlanConsumeAlwaysServed ==
  [][\A u \in UserIds :
       /\ (CallTakenUp("consume_request", u) /\ Exists(u) /\ PlanActive(users[u], now))
          => (pc' # pc /\ UNCHANGED Store)
       /\ \A p \in Procs :
            (/\ pc[p] \in {"log_usage", "commit_usage"} /\ pc'[p] # pc[p]
             /\ loc[p].user_id = u /\ PlanActive(users[u], now))
            => IF pc[p] = "log_usage"
               THEN pc'[p] = "commit_usage" /\ UNCHANGED Store
               ELSE /\ pc'[p] = "idle"
                    /\ last' = [op |-> "consume_request", user_id |-> u,
                                arg |-> <<>>, ret |-> "true"]
                    /\ RequestsOn(u, now)' = RequestsOn(u, now) + 1
                    /\ SumRequests(usage, u, 0)' = SumRequests(usage, u, 0) + 1
                    /\ UNCHANGED <<users, purchases, promo, chat>>]_vars

\* served beyond the quota of the capped plan
C13_Witness ==
  /\ last.op = "consume_request" /\ last.user_id = 1 /\ last.ret = "true"
  /\ PlanActive(users[1], now) /\ users[1].plan_id = PlanIdByName("Pro")
  /\ UsedThisMonth(1, now) > CapQuota

-----------------------------------------------------------------------------
\* C14: with calls issued one after another, every committed state of a user who
\* never had a plan shows as many recorded requests as trial units taken:
\* (initial trial + grants - trial_left) = sum of the user's Usage.requests.  The
\* decrement and the usage increment of a successful trial consume_request thus
\* appear together, by one commit, and the decrement is exactly 1 per request.
C14_TrialSpentEqualsUsage ==
  \A u \in UserIds :
    (Exists(u) /\ users[u].plan_id = None)
    => hist.trial0[u] + hist.granted[u] - users[u].trial_left = SumRequests(usage, u, 0)

\* two trial requests served on two different days, no grant in between
C14_Witness ==
  /\ Exists(1) /\ users[1].plan_id = None /\ hist.granted[1] = 0
  /\ hist.trial0[1] - users[1].trial_left = 2
  /\ Len(usage) = 2 /\ SumRequests(usage, 1, 0) = 2

-----------------------------------------------------------------------------
\* C15: a get_quota / can_make_request call changes nothing in the store.  For a
\* user id without a row it returns the synthetic view (trial_left = remaining =
\* the configured trial, no plan; can_make_request true) and there is still no
\* row afterwards.
C15_QuotaViewReadOnly ==
  [][\A u \in UserIds :
       CallTakenUp("get_user_quota", u)
       => /\ UNCHANGED Store
          /\ ~Exists(u) =>
               /\ ~users'[u].exists
               /\ last'.arg.trial_left = trial_requests
               /\ last'.arg.remaining = trial_requests
               /\ last'.arg.plan_id = None /\ last'.arg.plan_until = None
               /\ last'.ret = "true"]_vars

C15_Witness ==
  /\ last.op = "get_user_quota" /\ last.user_id = 2
  /\ ~Exists(2) /\ last.arg.remaining = trial_requests
  /\ usage # <<>>

\* what the view of a known user u must report as remaining, given a function
\* that settles both differences
QuotaViewRemaining(u, Settle(_)) ==
  LET active == users[u].plan_id # None /\ users[u].plan_until # None
                /\ users[u].plan_until > now
      quota == PlanById(users[u].plan_id).monthly_quota
  IN IF active /\ quota # UnlimitedQuota
     THEN last'.arg.remaining = Settle(quota - SumRequests(usage, u, StartOfMonth(now)))
     ELSE IF ~active THEN last'.arg.remaining = Settle(users[u].trial_left)
     ELSE TRUE

AsIs(x) == x
NotBelowZero(x) == IF x < 0 THEN 0 ELSE x

-----------------------------------------------------------------------------
\* C17: activate_plan(u, p, d) on an existing user sets the plan reference to p
\* and plan_until to exactly now + d, whatever plan_until was before (a second
\* activation does not add the unexpired remainder of the first), and the quota
\* view taken right after reports that plan and plan_until.
C17_ActivationResetsWindow ==
  [][\A p \in Procs, u \in UserIds :
       (/\ pc[p] = "activate" /\ pc'[p] # "activate"
        /\ loc[p].user_id = u /\ Exists(u))
       => /\ users'[u].plan_id = loc[p].plan_id
          /\ users'[u].plan_until = now + duration_days
          /\ get_user_quota(u)'.plan_id = loc[p].plan_id
          /\ get_user_quota(u)'.plan_until = now + duration_days]_vars

\* a second activation a day after the first, which had 29 days left
C17_Witness ==
  /\ Len(purchases) = 2
  /\ purchases[1].user_id = 1 /\ purchases[2].user_id = 1
  /\ purchases[1].completed_at < purchases[2].completed_at
  /\ purchases[2].completed_at < purchases[1].completed_at + duration_days
  /\ users[1].plan_id = purchases[2].plan_id
  /\ users[1].plan_until = purchases[2].completed_at + duration_days

-----------------------------------------------------------------------------
\* the promo row makes the code applicable now
PromoApplicable(code) ==
  /\ promo.code = code /\ promo.is_active
  /\ promo.until = None \/ promo.until >= now
  /\ promo.used < promo.max_uses

\* this step takes up a validate_promo call for the code
ValidateTakenUp(code) ==
  /\ hist'.calls = hist.calls + 1
  /\ \/ pc' = pc /\ last'.op = "validate_promo" /\ last'.arg = <<code>>
     \/ \E p \in Procs : /\ pc'[p] # pc[p] /\ loc'[p].op = "validate_promo"
                          /\ loc'[p].code = code

\* C18: validate_promo(code) returns the promo's terms exactly when a promo with
\* that code exists, is active, has no until or an until that is not in the past,
\* and used < max_uses; in every other case it returns none; it never changes the
\* promo.
C18_ValidatePromoExact ==
  [][\A code \in PromoCodes :
       ValidateTakenUp(code)
       => /\ promo' = promo
          /\ IF PromoApplicable(code)
             THEN \E p \in Procs : pc'[p] # pc[p] /\ loc'[p].promo_id = promo.id
             ELSE pc' = pc /\ last'.ret = "none"]_vars

\* refused for its date only, after having been redeemed while it was valid
C18_Witness ==
  /\ last.op = "validate_promo" /\ last.arg = <<"SALE">> /\ last.ret = "none"
  /\ promo.is_active /\ promo.used < promo.max_uses
  /\ promo.until # None /\ promo.until < now
  /\ hist.redeemed > 0

-----------------------------------------------------------------------------
\* this step takes up the webhook delivery described by arg
WebhookDelivered(arg) ==
  /\ hist'.calls = hist.calls + 1
  /\ \/ pc' = pc /\ last'.op = "yoomoney_webhook" /\ last'.arg = arg
     \/ \E p \in Procs : /\ pc'[p] # pc[p] /\ loc'[p].op = "yoomoney_webhook"
                          /\ loc'[p].arg = arg

\* C19: a webhook whose signature does not match, or that carries none, is
\* rejected at once with a failure (400 to the sender); it writes no Purchase and
\* changes no user's plan or plan_until, whatever the payload says.
C19_UnsignedWebhookRejected ==
  [][\A id \in PaymentIds, st \in {"succeeded", "canceled"}, sig \in {"forged", "missing"} :
       WebhookDelivered(<<id, st, sig>>)
       => /\ pc' = pc
          /\ last'.ret \in {"false", "400"}
          /\ WebhookAnswer(last'.ret) = 400
          /\ UNCHANGED Store]_vars

\* a forged "succeeded" for a registered user and a plan on sale left no trace
C19_Witness ==
  /\ last.op = "yoomoney_webhook" /\ last.ret = "false"
  /\ last.arg = <<"pay_1", "succeeded", "forged">>
  /\ Exists(1) /\ users[1].plan_id = None /\ users[1].plan_until = None
  /\ purchases = <<>>

-----------------------------------------------------------------------------
\* C20: a correctly signed webhook whose status is not "succeeded" changes
\* nothing in the store and is not reported as an error: the reconciler does not
\* return failure and the endpoint does not answer 400.
C20_NonSucceededIgnored ==
  [][\A id \in PaymentIds :
       WebhookDelivered(<<id, "canceled", "signed">>)
       => /\ UNCHANGED Store
          /\ last'.ret # "false"
          /\ WebhookAnswer(last'.ret) # 400]_vars

(***************************************************************************)
(* C21: a payment event whose plan name matches no Plan and whose          *)
(* idempotency key has no Purchase is rejected: the delivery returns at    *)
(* once with a failure, writes no Purchase and leaves the user's plan      *)
(* reference and plan_until as they were, on the gateway path and on the   *)
(* stars path alike.                                                       *)
(***************************************************************************)
StarsDelivered(i) ==
  /\ hist'.calls = hist.calls + 1
  /\ \/ pc' = pc /\ last'.op = "stars_payment" /\ last'.user_id = i[1]
                 /\ last'.arg = <<i[2], i[3]>>
     \/ \E p \in Procs : /\ pc'[p] # pc[p] /\ loc'[p].op = "stars_payment"
                         /\ loc'[p].user_id = i[1] /\ loc'[p].arg = <<i[2], i[3]>>

NoSuchPlan(plan_name) == \A i \in 1..Len(Plans) : Plans[i].name # plan_name

Rejected ==
  /\ pc' = pc
  /\ last'.ret = "false"
  /\ purchases' = purchases
  /\ users' = users

C21_UnknownPlanRejected ==
  [][/\ \A id \in PaymentIds :
          (/\ NoSuchPlan(GatewayPayments[id].plan_name)
           /\ ExistingPurchases("yoomoney", YooKey(id)) = {}
           /\ WebhookDelivered(<<id, "succeeded", "signed">>))
          => Rejected
     /\ \A i \in StarsInputs :
          (/\ NoSuchPlan(i[2])
           /\ ExistingPurchases("stars", StarsKey(i[1], i[2], i[3])) = {}
           /\ StarsDelivered(i))
          => Rejected]_vars

C21_Witness ==
  /\ AllIdle
  /\ last.op = "stars_payment" /\ last.arg = <<"Gold", "ch_1">> /\ last.ret = "false"
  /\ users[1].plan_id # None
  /\ Len(purchases) = 1
  /\ hist.calls = 2

(***************************************************************************)
(* C22: when the user row is missing at activation the reconciliation      *)
(* reports a failure and nothing it added stays: no Purchase with that key *)
(* exists afterwards.  A later delivery of the same payment, made after    *)
(* the user row has been created, is not answered as a duplicate: it goes  *)
(* on to activation and commits one Purchase together with the plan.       *)
(***************************************************************************)
Vias == {"yoomoney", "stars"}

PaymentKeys ==
  {YooKey(id) : id \in PaymentIds} \cup {StarsKey(i[1], i[2], i[3]) : i \in StarsInputs}

InFlight(p, via, key, u) ==
  /\ pc[p] = "activate"
  /\ loc[p].via = via /\ loc[p].key = key /\ loc[p].user_id = u

Aborted(key, u) ==
  /\ key \in hist.aborted
  /\ Count(hist.activated, key) = 0
  /\ Exists(u)

C22_MissingUserRollsBack ==
  [][/\ \A p \in Procs, via \in Vias, key \in PaymentKeys, u \in UserIds :
          /\ (InFlight(p, via, key, u) /\ ~Exists(u))
               => /\ pc'[p] = "idle"
                  /\ last'.ret = "false"
                  /\ ExistingPurchases(via, key)' = {}
                  /\ purchases' = purchases
                  /\ users' = users
          /\ (InFlight(p, via, key, u) /\ Aborted(key, u))
               => /\ last'.ret = "true"
                  /\ Len(purchases') = Len(purchases) + 1
                  /\ Cardinality(CompletedWithKey(via, key)') = 1
                  /\ users'[u].plan_id = loc[p].plan_id
                  /\ users'[u].plan_until = now + duration_days
     /\ \A id \in PaymentIds :
          (/\ Aborted(YooKey(id), GatewayPayments[id].user_id)
           /\ WebhookDelivered(<<id, "succeeded", "signed">>))
          => \E p \in Procs :
               InFlight(p, "yoomoney", YooKey(id), GatewayPayments[id].user_id)'
     /\ \A i \in StarsInputs :
          (/\ Aborted(StarsKey(i[1], i[2], i[3]), i[1])
           /\ StarsDelivered(i))
          => \E p \in Procs : InFlight(p, "stars", StarsKey(i[1], i[2], i[3]), i[1])']_vars

C22_Witness ==
  /\ AllIdle
  /\ hist.aborted = {YooKey("pay_3")}
  /\ hist.activated = <<YooKey("pay_3")>>
  /\ hist.dups = 0
  /\ Len(purchases) = 1 /\ purchases[1].user_id = 2
  /\ users[2].exists /\ users[2].plan_id # None
  /\ last.ret = "true"

(***************************************************************************)
(* C23: on the stars path, delivering the same confirmation (same user,    *)
(* plan name and charge id) any number of times one after the other        *)
(* writes exactly one completed Purchase and activates the plan exactly    *)
(* once: every delivery after the first returns success at once and        *)
(* changes nothing in the store.                                           *)
(***************************************************************************)
C23_StarsIdempotent ==
  [][\A i \in StarsInputs :
       LET key == StarsKey(i[1], i[2], i[3])
       IN /\ (StarsDelivered(i) /\ CompletedWithKey("stars", key) # {})
               => /\ AllIdle'
                  /\ last'.ret = "true"
                  /\ UNCHANGED Store
          /\ Cardinality(CompletedWithKey("stars", key)') <= 1
          /\ Count(hist.activated, key)' = Cardinality(CompletedWithKey("stars", key)')
          /\ (StarsDelivered(i) /\ CompletedWithKey("stars", key) = {}
                /\ ~NoSuchPlan(i[2]))
               => \E p \in Procs : InFlight(p, "stars", key, i[1])'
    ]_vars

C23_Witness ==
  /\ AllIdle
  /\ hist.dups >= 1
  /\ last.op = "stars_payment" /\ last.ret = "true" /\ last.user_id = 1
  /\ last.arg = <<"Pro", "ch_1">>
  /\ Len(purchases) = 1
  /\ purchases[1].key = StarsKey(1, "Pro", "ch_1")
  /\ purchases[1].completed_at < now
  /\ users[1].plan_until = purchases[1].completed_at + duration_days

(***************************************************************************)
(* C24: every chat turn, plain or streamed, takes its steps in one order:  *)
(* can_make_request, the dialog, the user message, the truncation of the   *)
(* history, consume_request, the provider, the assistant message, the      *)
(* dialog's timestamp.  No step comes before an earlier one, each step     *)
(* writes only what is its own, and a turn that stops at a step has taken  *)
(* none of the later ones.                                                 *)
(***************************************************************************)
TurnOrder ==
  <<"can_make_request", "dialog", "save_user", "truncate", "consume_request",
    "provider", "save_assistant", "touch">>

TurnOps == {"send_message", "stream_message"}

IsPrefix(s, t) == Len(s) <= Len(t) /\ SubSeq(t, 1, Len(s)) = s

\* the number of steps a turn has taken when it ends with this answer (a 500
\* comes from the dialog's commit or from consume_request)
StopAt(ret) ==
  CASE ret = "402_quota" -> {1}
    [] ret = "404" -> {2}
    [] ret = "500" -> {2, 5}
    [] ret = "402_consume" -> {5}
    [] ret = "abandoned" -> {6}
    [] ret = "200" -> {8}

StepTaken(p, name) ==
  /\ hist'.steps[p] # hist.steps[p]
  /\ hist'.steps[p] # <<>>
  /\ hist'.steps[p][Len(hist'.steps[p])] = name

C24_TurnStepsInOrder ==
  [][/\ \A p \in Procs :
          /\ IsPrefix(hist'.steps[p], TurnOrder)
          /\ (hist'.steps[p] # hist.steps[p] /\ ~StepTaken(p, "can_make_request"))
               => hist'.steps[p] = Append(hist.steps[p], TurnOrder[Len(hist.steps[p]) + 1])
          /\ (pc[p] # "idle" /\ pc'[p] = "idle")
               => /\ last'.op \in TurnOps
                  /\ Len(hist'.steps[p]) \in StopAt(last'.ret)
     /\ Len(chat'.messages) > Len(chat.messages)
          => \E p \in Procs : StepTaken(p, "save_user") \/ StepTaken(p, "save_assistant")
     /\ Len(chat'.dialogs) > Len(chat.dialogs)
          => \E p \in Procs : StepTaken(p, "dialog")
     /\ (chat'.dialogs # chat.dialogs /\ Len(chat'.dialogs) = Len(chat.dialogs))
          => \E p \in Procs : StepTaken(p, "touch")
     /\ hist'.provider # hist.provider
          => \E p \in Procs : StepTaken(p, "provider")
     /\ (users' # users \/ usage' # usage)
          => \E p \in Procs :
               /\ hist'.steps[p] = SubSeq(TurnOrder, 1, 5)
               /\ hist'.steps[p] = hist.steps[p]]_vars

C24_Witness ==
  /\ AllIdle
  /\ last.op = "stream_message" /\ last.ret = "200"
  /\ hist.steps[1] = TurnOrder
  /\ hist.calls = 2
  /\ Len(chat.messages) = 3

(***************************************************************************)
(* C25 as stated: in a turn where can_make_request returned true and       *)
(* consume_request then returns false, the turn still goes on to call the  *)
(* completion provider.                                                    *)
(***************************************************************************)
ConsumeRefuses(p) ==
  /\ pc[p] = "consume"
  /\ pc'[p] # pc[p]
  /\ ConsumeBranch(users[loc[p].user_id]) = "none"

HasUserMessage(dlg) ==
  \E i \in 1..Len(chat.messages) :
     chat.messages[i].dialog_id = dlg /\ chat.messages[i].role = "user"

AfterConsume(p) ==
  /\ pc[p] \in {"generate", "receive", "touch"}
  /\ pc'[p] # pc[p] \/ loc'[p] # loc[p]

C26_CommittedStateSurvives ==
  [][/\ IsPrefix(chat.messages, chat'.messages)
     /\ \A p \in Procs :
          /\ ConsumeRefuses(p)
               => /\ chat' = chat
                  /\ HasUserMessage(loc[p].dialog_id)
          /\ AfterConsume(p)
               => /\ users' = users
                  /\ usage' = usage
                  /\ users[loc[p].user_id].trial_left < hist.trial0[loc[p].user_id]
                  /\ UsedThisMonth(loc[p].user_id, now) >= 1
                  /\ HasUserMessage(loc[p].dialog_id)]_vars

C26_Witness ==
  /\ AllIdle
  /\ last.ret = "200"
  /\ hist.calls = 2
  /\ Len(chat.messages) = 3
  /\ chat.messages[3].role = "assistant" /\ chat.messages[3].content = ApologyText
  /\ chat.messages[1].dialog_id # chat.messages[2].dialog_id
  /\ users[1].trial_left = 0
  /\ UsedThisMonth(1, now) = 1

(***************************************************************************)
(* C27: truncate_messages(messages, budget) returns the longest suffix of  *)
(* the messages, in their order, whose costs (the length of the content    *)
(* divided by 3, rounded down) add up to at most the budget: walking from  *)
(* the newest message to the oldest it stops at the first message that     *)
(* would take the sum over the budget and takes no older one.              *)
(***************************************************************************)
RECURSIVE CostOf(_)
CostOf(messages) ==
  IF messages = <<>> THEN 0
  ELSE (Len(Head(messages).content) \div 3) + CostOf(Tail(messages))

\* the messages without the k oldest
Without(messages, k) == SubSeq(messages, k + 1, Len(messages))

Truncated ==
  LET messages == History(last.arg[1])
      budget == last.arg[2]
      fits == {k \in 0..Len(messages) : CostOf(Without(messages, k)) <= budget}
      most == CHOOSE k \in fits : \A j \in fits : k <= j
  IN [messages |-> messages, budget |-> budget, dropped |-> most,
      longest |-> Without(messages, most)]

C27_TruncateKeepsLongestSuffix ==
  last.op = "truncate_messages" =>
    /\ last.ret = Truncated.longest
    /\ CostOf(last.ret) <= Truncated.budget
    /\ Truncated.dropped > 0 =>
         CostOf(Without(Truncated.messages, Truncated.dropped - 1)) > Truncated.budget

C27_Witness ==
  /\ last.op = "truncate_messages"
  /\ Len(Truncated.messages) = 3
  /\ Len(last.ret) = 1
  /\ CostOf(last.ret) = Truncated.budget
  /\ Truncated.budget > 0
  /\ CostOf(<<Truncated.messages[1]>>) = 0
  /\ CostOf(<<Truncated.messages[2]>>) > 0

(***************************************************************************)
(* C28: when the client abandons a streamed answer after some fragments,   *)
(* what was generated so far is stored as the turn's assistant message,    *)
(* and the turn leaves neither a quota unit consumed without its usage     *)
(* record nor a usage record without the unit.                             *)
(***************************************************************************)
Abandoned == AllIdle /\ last.op = "stream_message" /\ last.ret = "abandoned"

UnitAndRecordPaired ==
  /\ UsedThisMonth(1, now) = hist.provider
  /\ users[1].plan_id = None => users[1].trial_left = hist.trial0[1] - hist.provider

C28_PartialReplyPersisted ==
  Abandoned =>
    /\ chat.messages # <<>>
    /\ chat.messages[Len(chat.messages)].role = "assistant"
    /\ chat.messages[Len(chat.messages)].content # <<>>
    /\ UnitAndRecordPaired

(***************************************************************************)
(* C29: for a user on an active capped plan of monthly quota Q whose usage *)
(* of the month starts at 0, at most Q chat turns of the month pass        *)
(* consume_request and reach the provider, also when turns of the user run *)
(* at the same time.                                                       *)
(***************************************************************************)
C29_CappedPlanHoldsQuota ==
  (PlanActive(users[1], now) /\ users[1].plan_id = 1) => hist.provider <= CapQuota

(***************************************************************************)
(* C30: when can_make_request(u) has returned true and nothing else        *)
(* touches u before it, the next consume_request(u) returns true, for      *)
(* every user id, one without a User row included.                         *)
(***************************************************************************)
CheckedThenConsumed(u) ==
  /\ AllIdle
  /\ last.op = "get_user_quota" /\ last.user_id = u /\ last.ret = "true"
  /\ can_make_request(u)
  /\ CallTakenUp("consume_request", u)

C30_CheckedRequestIsServed ==
  [][\A u \in UserIds :
       CheckedThenConsumed(u) => ~(pc' = pc /\ last'.ret = "false")]_vars

(***************************************************************************)
(* C31: requests consumed on the trial earlier in the month do not count   *)
(* against a plan activated later in that month: right after the capped    *)
(* plan is activated, get_quota reports remaining = its monthly quota.     *)
(***************************************************************************)
C31_FreshPlanHasFullQuota ==
  [][\A p \in Procs, u \in UserIds :
       (/\ pc[p] = "activate" /\ pc'[p] # "activate"
        /\ loc[p].user_id = u /\ Exists(u)
        /\ PlanById(loc[p].plan_id).monthly_quota = CapQuota)
       => get_user_quota(u)'.remaining = CapQuota]_vars

(***************************************************************************)
(* C34: when the plan runs out (now reaches plan_until) without a renewal  *)
(* the user is back on the trial: get_quota reports no active plan and     *)
(* remaining = trial_left; the activation and the requests consumed while  *)
(* the plan was active have left trial_left as it was; and consume_request *)
(* takes its unit from trial_left again.                                   *)
(***************************************************************************)
OnPlan(u) == Exists(u) /\ users[u].plan_id # None /\ users[u].plan_until > now

Expired(u) == Exists(u) /\ users[u].plan_id # None /\ users[u].plan_until <= now

C34_ExpiredPlanFallsBackToTrial ==
  [][\A u \in UserIds :
       /\ (OnPlan(u) \/ \E p \in Procs : InFlight(p, loc[p].via, loc[p].key, u))
            => (Exists(u) => users'[u].trial_left = users[u].trial_left)
       /\ Expired(u)'
            => /\ get_user_quota(u)'.plan_id = None
               /\ ~get_user_quota(u)'.is_active
               /\ get_user_quota(u)'.remaining = users'[u].trial_left
       /\ (Expired(u) /\ CallTakenUp("consume_request", u))
            => IF users[u].trial_left > 0 THEN pc' # pc
               ELSE pc' = pc /\ last'.ret = "false"
       /\ \A p \in Procs :
            (Expired(u) /\ pc[p] = "commit_usage" /\ pc'[p] = "idle" /\ loc[p].user_id = u)
            => /\ users'[u].trial_left = users[u].trial_left - 1
               /\ last'.ret = "true"]_vars

C34_Witness ==
  /\ AllIdle
  /\ Expired(1)
  /\ last.op = "consume_request" /\ last.ret = "true"
  /\ SumRequests(usage, 1, 0) = 2
  /\ UsedThisMonth(1, now) = 1
  /\ hist.trial0[1] = 2
  /\ users[1].trial_left = 1

TrialConsumeCommits(p, u) ==
  /\ pc[p] = "commit_usage" /\ pc'[p] = "idle"
  /\ loc[p].user_id = u /\ loc[p].branch = "trial"
  /\ last'.op = "consume_request" /\ last'.user_id = u /\ last'.ret = "true"
  /\ users'[u].trial_left = users[u].trial_left - 1

GrantCommits(p, u) ==
  /\ pc[p] = "commit_trial" /\ pc'[p] = "idle"
  /\ loc[p].user_id = u
  /\ last'.op = "add_trial_requests" /\ last'.user_id = u /\ last'.ret = "true"
  /\ users'[u].trial_left = users[u].trial_left + loc[p].amount

C33_TrialLeftFrame ==
  [][\A u \in UserIds :
       (Exists(u) /\ users'[u].trial_left # users[u].trial_left)
       => \E p \in Procs : TrialConsumeCommits(p, u) \/ GrantCommits(p, u)]_vars

C33_Witness ==
  /\ AllIdle
  /\ last.op = "ban_user" /\ last.ret = "200" /\ users[1].banned
  /\ users[1].plan_id # None
  /\ hist.calls = 2
  /\ users[1].trial_left = hist.trial0[1]
  /\ users[1].trial_left > 0

(***************************************************************************)
(* C35: a banned user cannot consume service: while the user's row has     *)
(* banned set, no step of a chat turn of that user consumes quota (a       *)
(* Usage write or a trial decrement) or calls the provider.                *)
(***************************************************************************)
C35_BannedUserIsRefused ==
  [][\A u \in UserIds :
       (Exists(u) /\ users[u].banned /\ users'[u].banned)
       => /\ hist'.provider = hist.provider
          /\ RequestsOn(u, now)' = RequestsOn(u, now)
          /\ users'[u].trial_left = users[u].trial_left]_vars

(***************************************************************************)
(* C36: the history sent to the provider always contains the newest        *)
(* message: for every non-empty history and every budget,                  *)
(* truncate_messages returns a non-empty list whose last element is the    *)
(* last message of the history.                                            *)
(***************************************************************************)
C36_NewestMessageIsSent ==
  (last.op = "truncate_messages" /\ Truncated.messages # <<>>)
  => /\ last.ret # <<>>
     /\ last.ret[Len(last.ret)] = Truncated.messages[Len(Truncated.messages)]

(***************************************************************************)
(* C37: a chat turn consumes at most one quota unit, and the provider is   *)
(* called only in turns whose consume_request returned true: in every      *)
(* reachable state the assistant messages stored and the provider calls    *)
(* made are each no more than the consume_request calls that returned      *)
(* true, and no step gives a consumed unit back (trial_left does not grow, *)
(* the requests on record do not shrink).                                  *)
(***************************************************************************)
\* consume_request calls that have returned true so far: the k-th of user u
\* on day d, for every u, d and k (no more of them than calls were started)
Consumed ==
  Cardinality({x \in UserIds \X Days \X (1..hist.calls) : x[3] <= hist.okOn[x[1]][x[2]]})

AssistantMessages ==
  Cardinality({i \in 1..Len(chat.messages) : chat.messages[i].role = "assistant"})

Redelivered == <<"pay_1", "succeeded", "signed">>

Acknowledged == Count(hist.activated, YooKey("pay_1")) > 0

C38_LaterRedeliveryIsDuplicate ==
  [][(Acknowledged /\ WebhookDelivered(Redelivered))
     => /\ pc' = pc
        /\ last'.ret = "true"
        /\ Store' = Store
        /\ Cardinality(CompletedWithKey("yoomoney", YooKey("pay_1"))) = 1]_vars

====
